---- MODULE Spec2Model ----
(***************************************************************************)
(* accio-ingestor: the durable job queue (queue.py), its worker loop, the  *)
(* job handlers (jobs.py) and the watch-and-admit pipeline (watcher.py).   *)
(*                                                                         *)
(* The store is the sqlite file: tables jobs and seen_files plus the       *)
(* AUTOINCREMENT sequence.  Every `with self._conn()` block that holds one *)
(* statement is one atomic step; _dequeue_due is two steps because its     *)
(* SELECT runs outside the transaction that its UPDATE opens.              *)
(***************************************************************************)
EXTENDS Integers, Sequences, FiniteSets, TLC

\* ---------------------------------------------------------------- bounds
MaxTime == 6          \* horizon of the one-second clock (Tick)
MaxWorkerTime == 3    \* horizon of the one-second clock beside enqueues of every kind
MaxClock == 700       \* horizon of the clock when the worker sleeps until a job is due
MaxJobs == 6          \* rows ever inserted into jobs
MaxEnq == 2           \* rows inserted by direct calls of enqueue
MaxRetryJobs == 2     \* rows inserted when the worker sleeps until a job is due
MaxFaults == 1        \* injected storage / file-system errors per run
MaxCrashes == 1       \* process kills per run
MaxFails == 12        \* failed dispatches recorded per job
MaxResubmits == 1     \* files put back from the failed directory per run
MaxLeaseClock == 10   \* horizon of the clock with two workers: two leases in a row
MaxConcFails == 2     \* failed dispatches recorded per run with two workers
MaxSeenTime == 1      \* seconds that pass between two mark_seen calls
MaxStarts == 2        \* worker threads started on one JobQueue per run
MaxOpens == 1         \* JobQueue objects constructed on the existing store file per run

\* ------------------------------------------------------ program constants
LEASE == 5            \* _dequeue_due: next_at = now + 5
MAX_BACKOFF == 60     \* _run: min(60, 2 ** attempts)
MAX_ATTEMPTS == 10    \* _run: if attempts >= 10
STABLE_TRIES == 60    \* on_created: for _ in range(60)
SLACK_WEBHOOK_URL == TRUE   \* settings.SLACK_WEBHOOK_URL is configured

Workers == {1, 2}     \* JobQueue instances (each owns one worker thread) on the store file
JobTypes == {"S3_PUT", "ACCIO", "OTHER"}
Files == {"a.pdf", "b.pdf", "n.txt"}

\* a file of zero bytes, dropped only where a specification names it
EmptyFiles == {"z.png"}

AllFiles == Files \cup EmptyFiles

\* st_size of the file once its writer has finished
Size(f) == IF f \in EmptyFiles THEN 0 ELSE 1

\* hashing.sha256_file: the two pdf files hold the same bytes
Sha256(f) == IF f \in {"a.pdf", "b.pdf"} THEN "h1" ELSE IF f \in EmptyFiles THEN "h0" ELSE "h2"

VARIABLES
    now,        \* int(time.time())
    jobs,       \* table jobs: id -> row
    seq,        \* sqlite_sequence of jobs: the largest id ever assigned
    seen,       \* table seen_files: sha256 -> row
    wpc,        \* position of each worker thread in _run
    wrow,       \* the row a worker holds (local variables job_id, type_, attempts)
    stop,       \* JobQueue._stop of each instance
    worker,     \* JobQueue._worker where the threads are those of one instance: 0 is None
    hpc,        \* position of the on_created call for each file
    floc,       \* the directory each file is in
    samples,    \* the loop variable of the stability loop: the sample pairs that differed
    dirty,      \* the file was written since stat1 of the sample pair in progress
    herr,       \* the exception the except branch of on_created caught, per file
    slackQ,     \* SlackClient._q: the notifications put so far
    healed,     \* sinks: the jobs whose sink calls succeed from now on
    faults,     \* storage and file-system errors raised so far
    crashes,    \* process kills so far
    hist        \* history of the run, read by the properties only

store == <<jobs, seq, seen>>
workerVars == <<wpc, wrow, stop, worker>>
watchVars == <<hpc, floc, samples, dirty, herr>>
envVars == <<healed, faults, crashes>>
vars == <<now, jobs, seq, seen, wpc, wrow, stop, worker, hpc, floc, samples, dirty, herr, slackQ, healed, faults, crashes, hist>>

NoRow == [id |-> 0, type |-> "none", kind |-> "none", attempts |-> 0]

Min(S) == CHOOSE x \in S : \A y \in S : x <= y

RECURSIVE Pow2(_)
Pow2(n) == IF n = 0 THEN 1 ELSE 2 * Pow2(n - 1)

\* the backoff without its cap
Backoff_NoCap(attempts) == Pow2(attempts)

\* the backoff computed from the attempts before the increment
Backoff_BeforeIncrement(attempts) ==
    IF Pow2(attempts - 1) < MAX_BACKOFF THEN Pow2(attempts - 1) ELSE MAX_BACKOFF

\* queue.py _run: backoff = min(60, 2 ** attempts), attempts already incremented
Backoff(attempts) == IF Pow2(attempts) < MAX_BACKOFF THEN Pow2(attempts) ELSE MAX_BACKOFF

\* queue.py _dequeue_due: WHERE next_at <= ?
Due(t) == {i \in DOMAIN jobs : jobs[i].next_at <= t}

\* the highest due id
FirstDue_Newest(t) == CHOOSE i \in Due(t) : \A j \in Due(t) : j <= i

\* the lowest due id: ORDER BY id LIMIT 1
FirstDue(t) == Min(Due(t))

\* queue.py enqueue: the row inserted, attempts 0, next_at and created_at both the
\* clock read at t
NewJob(type_, kind, sha, t) ==
    [type |-> type_, kind |-> kind, sha |-> sha, attempts |-> 0, next_at |-> t, created_at |-> t]

\* a rowid without AUTOINCREMENT: one more than the largest id in the table
NextId_MaxPlusOne == IF DOMAIN jobs = {} THEN 1 ELSE (CHOOSE i \in DOMAIN jobs : \A j \in DOMAIN jobs : j <= i) + 1

\* AUTOINCREMENT: one more than the largest id ever assigned
NextId == seq + 1

Insert(js, id, row) == [i \in DOMAIN js \cup {id} |-> IF i = id THEN row ELSE js[i]]

\* a deletion that takes the rows of lower id with it
Delete_ThroughId(js, id) == [i \in {k \in DOMAIN js : k > id} |-> js[i]]

\* DELETE FROM jobs WHERE id=?: the row of that id, if there is one, and no other
Delete(js, id) == [i \in DOMAIN js \ {id} |-> js[i]]

\* the lease counted as an attempt
SetNextAt_CountsAttempt(js, id, t) ==
    IF id \in DOMAIN js THEN [js EXCEPT ![id].next_at = t, ![id].attempts = @ + 1] ELSE js

\* UPDATE jobs SET next_at=? WHERE id=?  (no row, no change)
SetNextAt(js, id, t) ==
    IF id \in DOMAIN js THEN [js EXCEPT ![id].next_at = t] ELSE js

\* the row dropped when the attempt cap is reached
SetFailure_PurgeAtCap(js, id, attempts, t) ==
    IF id \notin DOMAIN js THEN js
    ELSE IF attempts >= MAX_ATTEMPTS THEN Delete(js, id)
    ELSE [js EXCEPT ![id].attempts = attempts, ![id].next_at = t]

\* the attempts counter frozen once it has reached the cap
SetFailure_FreezeAtCap(js, id, attempts, t) ==
    IF id \notin DOMAIN js THEN js
    ELSE [js EXCEPT ![id].attempts = IF attempts > MAX_ATTEMPTS THEN MAX_ATTEMPTS ELSE attempts,
                    ![id].next_at = t]

\* a failure write that puts the row back when it is gone
SetFailure_Upsert(js, id, attempts, t) ==
    [i \in DOMAIN js \cup {id} |->
        IF i # id THEN js[i]
        ELSE IF id \in DOMAIN js THEN [js[id] EXCEPT !.attempts = attempts, !.next_at = t]
        ELSE [type |-> "S3_PUT", kind |-> "original", sha |-> "h1",
              attempts |-> attempts, next_at |-> t, created_at |-> 0]]

\* a failure UPDATE that also restamps the row
SetFailure_Restamps(js, id, attempts, t) ==
    IF id \in DOMAIN js
      THEN [js EXCEPT ![id].attempts = attempts, ![id].next_at = t, ![id].created_at = t]
      ELSE js

\* UPDATE jobs SET attempts=?, next_at=? WHERE id=?
SetFailure(js, id, attempts, t) ==
    IF id \in DOMAIN js THEN [js EXCEPT ![id].attempts = attempts, ![id].next_at = t] ELSE js

\* an initialisation that creates its table anew
InitDb_Recreate(table, exists) == <<>>

\* _init_db: CREATE TABLE IF NOT EXISTS makes an empty table where there is none
\* and leaves an existing table and its rows alone
InitDb(table, exists) == IF exists THEN table ELSE <<>>

HistInit ==
    [enq |-> <<>>,                               \* the rows enqueued, in order of id
     fails |-> [i \in 1..MaxJobs |-> 0],         \* failures recorded per job id
     delay |-> [i \in 1..MaxJobs |-> 0],         \* the last backoff delay written per job id
     claimedAt |-> [w \in Workers |-> 0],        \* the time of the lease a worker wrote
     sinkOk |-> [w \in Workers |-> FALSE],       \* the sink call of the dispatch in flight succeeded
     orphan |-> {},                              \* jobs whose dispatch a process kill interrupted
     reclaimed |-> {},                           \* such jobs that a later claim returned
     raised |-> {},                              \* files whose on_created ran its except branch
     passed |-> {},                              \* files whose hash is_seen did not find
     admitted |-> {},                            \* files moved to processed after their enqueues
     resub |-> 0,                                \* files put back into the watch directory
     starts |-> 0,                               \* threads started on the one JobQueue
     startIgnored |-> FALSE,                     \* a start_worker returned at its is_alive check
     late |-> {},                                \* ids whose failure UPDATE found no row
     gone |-> {},                                \* ids whose DELETE found no row
     opens |-> 0]                                \* JobQueue objects constructed on the existing file

Init ==
    /\ now = 0
    /\ jobs = <<>>
    /\ seq = 0
    /\ seen = <<>>
    /\ wpc = [w \in Workers |-> "off"]
    /\ wrow = [w \in Workers |-> NoRow]
    /\ stop = [w \in Workers |-> FALSE]
    /\ worker = 0
    /\ hpc = [f \in AllFiles |-> "idle"]
    /\ floc = [f \in AllFiles |-> "absent"]
    /\ samples = [f \in AllFiles |-> 0]
    /\ dirty = [f \in AllFiles |-> FALSE]
    /\ herr = [f \in AllFiles |-> "none"]
    /\ slackQ = <<>>
    /\ healed = {}
    /\ faults = 0
    /\ crashes = 0
    /\ hist = HistInit

\* ------------------------------------------------------------- the clock
Tick ==
    /\ now' = now + 1
    /\ UNCHANGED <<store, workerVars, watchVars, slackQ, envVars, hist>>

\* if not row: time.sleep(0.25); continue -- repeated until a job is due
IdleUntilDue(w) ==
    /\ wpc[w] = "loop"
    /\ ~stop[w]
    /\ Due(now) = {}
    /\ DOMAIN jobs # {}
    /\ now' = Min({jobs[i].next_at : i \in DOMAIN jobs})
    /\ now' <= MaxClock
    /\ UNCHANGED <<store, workerVars, watchVars, slackQ, envVars, hist>>

\* the sink of a job recovers: from now on its put / post succeeds
Heal(j) ==
    /\ j \in DOMAIN jobs
    /\ j \notin healed
    /\ healed' = healed \cup {j}
    /\ UNCHANGED <<now, store, workerVars, watchVars, slackQ, faults, crashes, hist>>

\* ------------------------------------------------------- JobQueue.enqueue
Enqueue(type_, kind, sha) ==
    /\ jobs' = Insert(jobs, NextId, NewJob(type_, kind, sha, now))
    /\ seq' = NextId
    /\ hist' = [hist EXCEPT !.enq = Append(@, [id |-> NextId, type |-> type_, kind |-> kind,
                                                sha |-> sha, by |-> "api"])]
    /\ UNCHANGED <<now, seen, workerVars, watchVars, slackQ, envVars>>

\* enqueue reads the clock twice, int(time.time()) for next_at and then again for
\* created_at: here the second passes between the two reads
EnqueueAcrossSecond(type_, kind, sha) ==
    /\ jobs' = Insert(jobs, NextId, [NewJob(type_, kind, sha, now) EXCEPT !.created_at = now + 1])
    /\ seq' = NextId
    /\ now' = now + 1
    /\ hist' = [hist EXCEPT !.enq = Append(@, [id |-> NextId, type |-> type_, kind |-> kind,
                                                sha |-> sha, by |-> "api"])]
    /\ UNCHANGED <<seen, workerVars, watchVars, slackQ, envVars>>

\* --------------------------------------- start_worker / stop_worker
\* JobQueue.__init__ on the store file that exists, both tables in it since the
\* first construction: a new Event, no thread, _init_db
Reopen(w) ==
    /\ wpc[w] = "off"
    /\ hist.opens < MaxOpens
    /\ jobs' = InitDb(jobs, TRUE)
    /\ seen' = InitDb(seen, TRUE)
    /\ stop' = [stop EXCEPT ![w] = FALSE]
    /\ wrow' = [wrow EXCEPT ![w] = NoRow]
    /\ hist' = [hist EXCEPT !.opens = @ + 1]
    /\ UNCHANGED <<now, seq, wpc, worker, watchVars, slackQ, envVars>>

StartWorker(w) ==
    /\ wpc[w] = "off"
    /\ stop' = [stop EXCEPT ![w] = FALSE]
    /\ wpc' = [wpc EXCEPT ![w] = "loop"]
    /\ wrow' = [wrow EXCEPT ![w] = NoRow]
    /\ UNCHANGED <<now, store, worker, watchVars, slackQ, envVars, hist>>

\* stop_worker: self._stop.set(); the join waits at most 5 seconds and changes nothing
StopWorker(w) ==
    /\ ~stop[w]
    /\ stop' = [stop EXCEPT ![w] = TRUE]
    /\ UNCHANGED <<now, store, wpc, wrow, worker, watchVars, slackQ, envVars, hist>>

\* ---------- start_worker / stop_worker of one JobQueue, its threads told apart
\* the thread self._worker refers to is alive
WorkerAlive == worker # 0 /\ wpc[worker] # "off"

\* threading.Thread(target=self._run, daemon=True).start() after self._stop.clear()
StartThread(t) ==
    /\ wpc[t] = "off"
    /\ hist.starts < MaxStarts
    /\ stop' = [w \in Workers |-> FALSE]
    /\ wpc' = [wpc EXCEPT ![t] = "loop"]
    /\ wrow' = [wrow EXCEPT ![t] = NoRow]
    /\ worker' = t
    /\ hist' = [hist EXCEPT !.starts = @ + 1]
    /\ UNCHANGED <<now, store, watchVars, slackQ, envVars>>

\* a start_worker without the is_alive check
QueueStartWorker_NoAliveCheck ==
    \E t \in Workers : StartThread(t)

\* start_worker: if self._worker and self._worker.is_alive(): return; else clear the
\* Event and start a new thread.  The caller is past an earlier stop_worker: its
\* join returned because the thread ended, or timed out because the thread is
\* inside handle_job
QueueStartWorker ==
    /\ (stop[1] /\ WorkerAlive) => wpc[worker] = "handle"
    /\ IF WorkerAlive
         THEN /\ hist' = [hist EXCEPT !.startIgnored = TRUE]
              /\ UNCHANGED <<now, store, workerVars, watchVars, slackQ, envVars>>
         ELSE \E t \in Workers : StartThread(t)

\* stop_worker: self._stop.set(), the Event all threads of the instance read; the
\* join of at most 5 seconds changes nothing
QueueStopWorker ==
    /\ \E w \in Workers : ~stop[w]
    /\ stop' = [w \in Workers |-> TRUE]
    /\ UNCHANGED <<now, store, wpc, wrow, worker, watchVars, slackQ, envVars, hist>>

\* ------------------------------------------------------ JobQueue._run
\* while not self._stop.is_set(): left when the flag is set
WorkerExit(w) ==
    /\ wpc[w] = "loop"
    /\ stop[w]
    /\ wpc' = [wpc EXCEPT ![w] = "off"]
    /\ UNCHANGED <<now, store, wrow, stop, worker, watchVars, slackQ, envVars, hist>>

\* a loop that claims without looking at the stop flag
DequeueSelect_IgnoresStop(w) ==
    /\ wpc[w] = "loop"
    /\ Due(now) # {}
    /\ LET id == FirstDue(now) IN
          wrow' = [wrow EXCEPT ![w] = [id |-> id, type |-> jobs[id].type,
                                       kind |-> jobs[id].kind,
                                       attempts |-> jobs[id].attempts]]
    /\ wpc' = [wpc EXCEPT ![w] = "update"]
    /\ hist' = [hist EXCEPT !.orphan = {o \in @ : o.id # FirstDue(now)},
                             !.reclaimed = @ \cup {o.id : o \in {p \in hist.orphan : p.id = FirstDue(now)}}]
    /\ UNCHANGED <<now, store, stop, worker, watchVars, slackQ, envVars>>

\* while not self._stop.is_set(): row = self._dequeue_due()
\* _dequeue_due, the SELECT: the lowest id with next_at <= now
DequeueSelect(w) ==
    /\ wpc[w] = "loop"
    /\ ~stop[w]
    /\ Due(now) # {}
    /\ LET id == FirstDue(now) IN
          wrow' = [wrow EXCEPT ![w] = [id |-> id, type |-> jobs[id].type,
                                       kind |-> jobs[id].kind,
                                       attempts |-> jobs[id].attempts]]
    /\ wpc' = [wpc EXCEPT ![w] = "update"]
    /\ hist' = [hist EXCEPT !.orphan = {o \in @ : o.id # FirstDue(now)},
                             !.reclaimed = @ \cup {o.id : o \in {p \in hist.orphan : p.id = FirstDue(now)}}]
    /\ UNCHANGED <<now, store, stop, worker, watchVars, slackQ, envVars>>

\* _dequeue_due, the UPDATE and commit: next_at = now + 5 for the selected id
DequeueUpdate(w) ==
    /\ wpc[w] = "update"
    /\ jobs' = SetNextAt(jobs, wrow[w].id, now + LEASE)
    /\ wpc' = [wpc EXCEPT ![w] = "handle"]
    /\ hist' = [hist EXCEPT !.claimedAt[w] = now, !.sinkOk[w] = FALSE]
    /\ UNCHANGED <<now, seq, seen, wrow, stop, worker, watchVars, slackQ, envVars>>

\* jobs.py handle_job: the outcomes of one dispatch
\*   "ok"     the sink call and the audit append returned
\*   "sink"   the sink call raised (put_object_with_retention / post_document)
\*   "audit"  the sink call returned and audit.append raised
\*   "type"   ValueError: unknown job type
\*   "field"  KeyError: the payload lacks a field the handler reads
HandleOutcomes_SkipsUnknown(row) ==
    IF row.type \notin {"S3_PUT", "ACCIO"} THEN {"ok"}
    ELSE IF row.kind = "malformed" THEN {"field"}
    ELSE {"ok", "audit"} \cup (IF row.id \in healed THEN {} ELSE {"sink"})

HandleOutcomes(row) ==
    IF row.type \notin {"S3_PUT", "ACCIO"} THEN {"type"}
    ELSE IF row.kind = "malformed" THEN {"field"}
    ELSE {"ok", "audit"} \cup (IF row.id \in healed THEN {} ELSE {"sink"})

\* a dispatch whose ValueError for an unknown type ends the worker thread
HandleJob_TypeErrorEscapes(w) ==
    /\ wpc[w] = "handle"
    /\ \E o \in HandleOutcomes(wrow[w]) :
          /\ o # "ok" => hist.fails[wrow[w].id] < MaxFails
          /\ wpc' = [wpc EXCEPT ![w] = IF o = "ok" THEN "else"
                                       ELSE IF o = "type" THEN "off" ELSE "except"]
          /\ hist' = [hist EXCEPT !.sinkOk[w] = (o \in {"ok", "audit"})]
    /\ UNCHANGED <<now, store, wrow, stop, worker, watchVars, slackQ, envVars>>

\* try: handle_job(type_, payload)  except Exception / else
HandleJob(w) ==
    /\ wpc[w] = "handle"
    /\ \E o \in HandleOutcomes(wrow[w]) :
          /\ o # "ok" => hist.fails[wrow[w].id] < MaxFails
          /\ wpc' = [wpc EXCEPT ![w] = IF o = "ok" THEN "else" ELSE "except"]
          /\ hist' = [hist EXCEPT !.sinkOk[w] = (o \in {"ok", "audit"})]
    /\ UNCHANGED <<now, store, wrow, stop, worker, watchVars, slackQ, envVars>>

\* the except branch: attempts += 1, backoff, one UPDATE; log only
RecordFailure(w) ==
    /\ wpc[w] = "except"
    /\ LET id == wrow[w].id
           attempts == wrow[w].attempts + 1
           backoff == Backoff(attempts)
       IN /\ jobs' = SetFailure(jobs, id, attempts, now + backoff)
          /\ hist' = [hist EXCEPT !.fails[id] = @ + 1, !.delay[id] = backoff,
                                   !.claimedAt[w] = 0, !.sinkOk[w] = FALSE,
                                   !.late = IF id \in DOMAIN jobs THEN @ ELSE @ \cup {id}]
    /\ wpc' = [wpc EXCEPT ![w] = "loop"]
    /\ wrow' = [wrow EXCEPT ![w] = NoRow]
    /\ UNCHANGED <<now, seq, seen, stop, worker, watchVars, slackQ, envVars>>

\* the else branch: DELETE FROM jobs WHERE id=?
Complete(w) ==
    /\ wpc[w] = "else"
    /\ jobs' = Delete(jobs, wrow[w].id)
    /\ wpc' = [wpc EXCEPT ![w] = "loop"]
    /\ wrow' = [wrow EXCEPT ![w] = NoRow]
    /\ hist' = [hist EXCEPT !.claimedAt[w] = 0, !.sinkOk[w] = FALSE,
                            !.gone = IF wrow[w].id \in DOMAIN jobs THEN @ ELSE @ \cup {wrow[w].id}]
    /\ UNCHANGED <<now, seq, seen, stop, worker, watchVars, slackQ, envVars>>

\* _dequeue_due finds no due row and returns None: nothing is written
DequeueNone(w) ==
    /\ wpc[w] = "loop"
    /\ ~stop[w]
    /\ Due(now) = {}
    /\ wpc' = [wpc EXCEPT ![w] = "sleep"]
    /\ UNCHANGED <<now, store, wrow, stop, worker, watchVars, slackQ, envVars, hist>>

\* if not row: time.sleep(0.25); continue
Sleep(w) ==
    /\ wpc[w] = "sleep"
    /\ wpc' = [wpc EXCEPT ![w] = "loop"]
    /\ UNCHANGED <<now, store, wrow, stop, worker, watchVars, slackQ, envVars, hist>>

\* the empty poll of the loop
Poll(w) == DequeueNone(w) \/ Sleep(w)

\* one pass of the loop body
Dispatch(w) ==
    \/ DequeueSelect(w)
    \/ DequeueUpdate(w)
    \/ HandleJob(w)
    \/ RecordFailure(w)
    \/ Complete(w)

\* ------------------------------------------------ watcher.py Handler.on_created
\* an allow-list that lets every suffix through
ALLOWED_Any == {".pdf", ".jpg", ".jpeg", ".png", ".txt"}

\* if suffix not in {".pdf", ".jpg", ".jpeg", ".png"}: return
ALLOWED == {".pdf", ".jpg", ".jpeg", ".png"}

\* path.suffix.lower() of the file names of the model
Suffix(f) == IF f \in {"a.pdf", "b.pdf"} THEN ".pdf" ELSE IF f = "z.png" THEN ".png" ELSE ".txt"

\* the three rows of enqueue_ingest_jobs with the API post first
IngestJob_ApiFirst(k) ==
    IF k = 1 THEN [type |-> "ACCIO", kind |-> "json"]
    ELSE IF k = 2 THEN [type |-> "S3_PUT", kind |-> "original"]
    ELSE [type |-> "S3_PUT", kind |-> "extracted"]

\* the three rows of enqueue_ingest_jobs, in the order of its calls
IngestJob(k) ==
    IF k = 1 THEN [type |-> "S3_PUT", kind |-> "original"]
    ELSE IF k = 2 THEN [type |-> "S3_PUT", kind |-> "extracted"]
    ELSE [type |-> "ACCIO", kind |-> "json"]

\* the observer thread delivers one event at a time
ObserverIdle == \A g \in AllFiles : hpc[g] \in {"idle", "done", "killed"}

\* control moves on inside the try block
Goto(f, pc) ==
    /\ hpc' = [hpc EXCEPT ![f] = pc]
    /\ herr' = herr

\* an exception e is raised inside the try block: control goes to the except branch
Fail(f, e) ==
    /\ hpc' = [hpc EXCEPT ![f] = "except"]
    /\ herr' = [herr EXCEPT ![f] = e]

\* an operation of the admission raises a storage or file-system error
Raise(f) ==
    /\ faults < MaxFaults
    /\ faults' = faults + 1
    /\ Fail(f, "OSError")

\* the file appears in the watch directory and its event is delivered;
\* a suffix outside the allow-list returns at once
OnCreated(f) ==
    /\ hpc[f] = "idle"
    /\ floc[f] = "absent"
    /\ floc' = [floc EXCEPT ![f] = "watch"]
    /\ Goto(f, IF Suffix(f) \in ALLOWED THEN "wait" ELSE "done")
    /\ samples' = [samples EXCEPT ![f] = 0]
    /\ dirty' = [dirty EXCEPT ![f] = FALSE]
    /\ UNCHANGED <<now, store, workerVars, slackQ, envVars, hist>>

\* the operator puts a file of the failed directory back into the watch directory
Resubmit(f) ==
    /\ hpc[f] = "done"
    /\ floc[f] = "failed"
    /\ hist.resub < MaxResubmits
    /\ floc' = [floc EXCEPT ![f] = "watch"]
    /\ hpc' = [hpc EXCEPT ![f] = IF Suffix(f) \in ALLOWED THEN "wait" ELSE "done"]
    /\ herr' = [herr EXCEPT ![f] = "none"]
    /\ samples' = [samples EXCEPT ![f] = 0]
    /\ dirty' = [dirty EXCEPT ![f] = FALSE]
    /\ hist' = [hist EXCEPT !.resub = @ + 1]
    /\ UNCHANGED <<now, store, workerVars, slackQ, envVars>>

\* the program that drops the file is still writing it: size and mtime change
Write(f) ==
    /\ hpc[f] = "wait2"
    /\ floc[f] = "watch"
    /\ ~dirty[f]
    /\ dirty' = [dirty EXCEPT ![f] = TRUE]
    /\ UNCHANGED <<now, store, workerVars, hpc, floc, samples, herr, slackQ, envVars, hist>>

\* _is_stable: stat1 = path.stat(), then the sleep of wait_ms
Stat1(f) ==
    /\ hpc[f] = "wait"
    /\ \/ Goto(f, "wait2") /\ dirty' = [dirty EXCEPT ![f] = FALSE] /\ UNCHANGED faults
       \/ Raise(f) /\ UNCHANGED dirty
    /\ samples' = [samples EXCEPT ![f] = IF hpc'[f] = "except" THEN 0 ELSE @]
    /\ UNCHANGED <<now, store, workerVars, floc, slackQ, healed, crashes, hist>>

\* a sample pair that always counts as identical
Stat2_AlwaysStable(f) ==
    /\ hpc[f] = "wait2"
    /\ Goto(f, "extract")
    /\ samples' = [samples EXCEPT ![f] = 0]
    /\ dirty' = [dirty EXCEPT ![f] = FALSE]
    /\ UNCHANGED <<now, store, workerVars, floc, slackQ, envVars, hist>>

\* _is_stable: stat2 = path.stat() and the comparison; the for loop of on_created
\* breaks on an identical pair and raises TimeoutError after STABLE_TRIES other pairs
Stat2(f) ==
    /\ hpc[f] = "wait2"
    /\ IF ~dirty[f]
         THEN /\ Goto(f, "extract")
              /\ samples' = [samples EXCEPT ![f] = 0]
         ELSE IF samples[f] + 1 < STABLE_TRIES
                THEN /\ Goto(f, "wait")
                     /\ samples' = [samples EXCEPT ![f] = @ + 1]
                ELSE /\ Fail(f, "TimeoutError")
                     /\ samples' = [samples EXCEPT ![f] = 0]
    /\ dirty' = [dirty EXCEPT ![f] = FALSE]
    /\ UNCHANGED <<now, store, workerVars, floc, slackQ, envVars, hist>>

\* for _ in range(60): if _is_stable(path): break ... else: raise TimeoutError
StabilityWait(f) == Stat1(f) \/ Stat2(f)

\* a gate that never finds the hash
IsSeen_NeverSeen(sha) == FALSE

\* JobQueue.is_seen: SELECT 1 FROM seen_files WHERE sha256=?
IsSeen(sha) == sha \in DOMAIN seen

\* a mark_seen whose INSERT is not committed
MarkSeen_Uncommitted(sn, sha, filename, t) == sn

\* a mark_seen that replaces the record of a hash that is present
MarkSeen_Replace(sn, sha, filename, t) ==
    [h \in DOMAIN sn \cup {sha} |->
        IF h = sha THEN [filename |-> filename, created_at |-> t] ELSE sn[h]]

\* JobQueue.mark_seen: INSERT OR IGNORE
MarkSeen(sn, sha, filename, t) ==
    IF sha \in DOMAIN sn THEN sn
    ELSE [h \in DOMAIN sn \cup {sha} |->
            IF h = sha THEN [filename |-> filename, created_at |-> t] ELSE sn[h]]

\* an extraction that records the hash as seen before it reads the pages
Extract_MarksFirst(f) ==
    /\ hpc[f] = "extract"
    /\ seen' = MarkSeen(seen, Sha256(f), f, now)
    /\ \/ Goto(f, "is_seen") /\ UNCHANGED faults
       \/ faults < MaxFaults /\ faults' = faults + 1 /\ Fail(f, "ExtractError")
    /\ UNCHANGED <<now, jobs, seq, workerVars, floc, samples, dirty, slackQ, healed, crashes, hist>>

\* process_file_to_payload: bytes, sha256 and pages, or an exception; fitz.open and
\* Image.open raise on a file of no bytes
Extract(f) ==
    /\ hpc[f] = "extract"
    /\ \/ /\ IF Size(f) = 0 THEN Fail(f, "ExtractError") ELSE Goto(f, "is_seen")
          /\ UNCHANGED faults
       \/ faults < MaxFaults /\ faults' = faults + 1 /\ Fail(f, "ExtractError")
    /\ UNCHANGED <<now, store, workerVars, floc, samples, dirty, slackQ, healed, crashes, hist>>

\* if self.queue.is_seen(sha256)
DedupGate(f) ==
    /\ hpc[f] = "is_seen"
    /\ \/ /\ Goto(f, IF IsSeen(Sha256(f)) THEN "dup" ELSE "mark")
          /\ hist' = [hist EXCEPT !.passed = IF IsSeen(Sha256(f)) THEN @ ELSE @ \cup {f}]
          /\ UNCHANGED faults
       \/ Raise(f) /\ UNCHANGED hist
    /\ UNCHANGED <<now, store, workerVars, floc, samples, dirty, slackQ, healed, crashes>>

\* the duplicate: dest.write_bytes, path.unlink, return
DuplicateSkip(f) ==
    /\ hpc[f] = "dup"
    /\ \/ /\ floc' = [floc EXCEPT ![f] = "processed"]
          /\ Goto(f, "done")
          /\ UNCHANGED faults
       \/ Raise(f) /\ UNCHANGED floc
    /\ UNCHANGED <<now, store, workerVars, samples, dirty, slackQ, healed, crashes, hist>>

\* self.queue.mark_seen(sha256, path.name)
AdmitMark(f) ==
    /\ hpc[f] = "mark"
    /\ \/ /\ seen' = MarkSeen(seen, Sha256(f), f, now)
          /\ Goto(f, "enq1")
          /\ UNCHANGED faults
       \/ Raise(f) /\ UNCHANGED seen
    /\ UNCHANGED <<now, jobs, seq, workerVars, floc, samples, dirty, slackQ, healed, crashes, hist>>

EnqPc(k) == IF k = 1 THEN "enq1" ELSE IF k = 2 THEN "enq2" ELSE IF k = 3 THEN "enq3" ELSE "audit"

\* enqueue_ingest_jobs: the k-th queue.enqueue
AdmitEnqueue(f, k) ==
    /\ hpc[f] = EnqPc(k)
    /\ \/ /\ seq < MaxJobs
          /\ jobs' = Insert(jobs, NextId,
                            NewJob(IngestJob(k).type, IngestJob(k).kind, Sha256(f), now))
          /\ seq' = NextId
          /\ hist' = [hist EXCEPT !.enq = Append(@, [id |-> NextId, type |-> IngestJob(k).type,
                                                      kind |-> IngestJob(k).kind,
                                                      sha |-> Sha256(f), by |-> f])]
          /\ Goto(f, EnqPc(k + 1))
          /\ UNCHANGED faults
       \/ Raise(f) /\ UNCHANGED <<jobs, seq, hist>>
    /\ UNCHANGED <<now, seen, workerVars, floc, samples, dirty, slackQ, healed, crashes>>

\* enqueue_ingest_jobs: audit.append("enqueued", ...)
AdmitAudit(f) ==
    /\ hpc[f] = "audit"
    /\ \/ Goto(f, "move") /\ UNCHANGED faults
       \/ Raise(f)
    /\ UNCHANGED <<now, store, workerVars, floc, samples, dirty, slackQ, healed, crashes, hist>>

\* shutil.move(path, PROCESSED_DIR / path.name)
MoveProcessed(f) ==
    /\ hpc[f] = "move"
    /\ \/ /\ floc' = [floc EXCEPT ![f] = "processed"]
          /\ Goto(f, "done")
          /\ hist' = [hist EXCEPT !.admitted = @ \cup {f}]
          /\ UNCHANGED faults
       \/ Raise(f) /\ UNCHANGED <<floc, hist>>
    /\ UNCHANGED <<now, store, workerVars, samples, dirty, slackQ, healed, crashes>>

\* SlackClient.error: the message is put unless no webhook is configured
SlackError(q, code, filename, message) ==
    IF SLACK_WEBHOOK_URL
      THEN Append(q, [code |-> code, filename |-> filename, job |-> 0, message |-> message])
      ELSE q

\* an except branch that lets the failure of the move to FAILED_DIR escape
AdmitFailed_MoveEscapes(f) ==
    /\ hpc[f] = "except"
    /\ slackQ' = SlackError(slackQ, "PROCESSING_FAILED", f, herr[f])
    /\ \/ floc' = [floc EXCEPT ![f] = "failed"] /\ UNCHANGED faults /\ Goto(f, "done")
       \/ faults < MaxFaults /\ faults' = faults + 1 /\ UNCHANGED floc /\ Goto(f, "escaped")
    /\ hist' = [hist EXCEPT !.raised = @ \cup {f}]
    /\ UNCHANGED <<now, store, workerVars, samples, dirty, healed, crashes>>

\* except Exception: slack.error(...), then the move to FAILED_DIR, whose failure is passed
AdmitFailed(f) ==
    /\ hpc[f] = "except"
    /\ slackQ' = SlackError(slackQ, "PROCESSING_FAILED", f, herr[f])
    /\ \/ floc' = [floc EXCEPT ![f] = "failed"] /\ UNCHANGED faults
       \/ faults < MaxFaults /\ faults' = faults + 1 /\ UNCHANGED floc
    /\ Goto(f, "done")
    /\ hist' = [hist EXCEPT !.raised = @ \cup {f}]
    /\ UNCHANGED <<now, store, workerVars, samples, dirty, healed, crashes>>

\* ------------------- the entry points without the watcher: oneshot, manual upload
\* an extractor that takes every other suffix for an image
ProcessFileToPayload_AnySuffix(f, readOk, pagesOk) ==
    IF ~readOk THEN "OSError"
    ELSE IF pagesOk THEN "payload" ELSE "ExtractError"

\* process_file_to_payload: path.read_bytes() and sha256_file, then the branch on
\* the lower-cased suffix: pages of a pdf, OCR of an image, else ValueError
ProcessFileToPayload(f, readOk, pagesOk) ==
    IF ~readOk THEN "OSError"
    ELSE IF Suffix(f) = ".pdf" THEN (IF pagesOk THEN "payload" ELSE "ExtractError")
    ELSE IF Suffix(f) \in {".jpg", ".jpeg", ".png"} THEN (IF pagesOk THEN "payload" ELSE "ExtractError")
    ELSE "ValueError"

\* the positions of main --oneshot and of gui on_start_ingest for one file
EntryPc(e, k) ==
    IF e = "oneshot" THEN <<"o_extract", "o_enq1", "o_enq2", "o_enq3", "o_audit", "o_copy">>[k]
    ELSE <<"m_extract", "m_enq1", "m_enq2", "m_enq3", "m_audit", "done">>[k]

\* an exception ends the entry point for this file: oneshot leaves through its
\* finally, on_start_ingest sets the status of the row to Failed
EntryFail(f, e) ==
    /\ hpc' = [hpc EXCEPT ![f] = "done"]
    /\ herr' = [herr EXCEPT ![f] = e]

EntryRaise(f) ==
    /\ faults < MaxFaults
    /\ faults' = faults + 1
    /\ EntryFail(f, "OSError")

\* the file is given as --input, or staged in the manual upload table and started
EntryStart(e, f) ==
    /\ hpc[f] = "idle"
    /\ floc[f] = "absent"
    /\ floc' = [floc EXCEPT ![f] = "input"]
    /\ Goto(f, EntryPc(e, 1))
    /\ UNCHANGED <<now, store, workerVars, samples, dirty, slackQ, envVars, hist>>

\* payload, original_bytes, content_type, sha256 = process_file_to_payload(path)
EntryExtract(e, f) ==
    /\ hpc[f] = EntryPc(e, 1)
    /\ \E readOk, pagesOk \in BOOLEAN :
          /\ IF readOk /\ pagesOk THEN UNCHANGED faults
                                  ELSE faults < MaxFaults /\ faults' = faults + 1
          /\ LET o == ProcessFileToPayload(f, readOk, pagesOk)
             IN IF o = "payload" THEN Goto(f, EntryPc(e, 2)) ELSE EntryFail(f, o)
    /\ UNCHANGED <<now, store, workerVars, floc, samples, dirty, slackQ, healed, crashes, hist>>

\* enqueue_ingest_jobs(self.queue, payload, sha256, ...): the k-th queue.enqueue
EntryEnqueue(e, f, k) ==
    /\ hpc[f] = EntryPc(e, k + 1)
    /\ \/ /\ seq < MaxJobs
          /\ jobs' = Insert(jobs, NextId,
                            NewJob(IngestJob(k).type, IngestJob(k).kind, Sha256(f), now))
          /\ seq' = NextId
          /\ hist' = [hist EXCEPT !.enq = Append(@, [id |-> NextId, type |-> IngestJob(k).type,
                                                      kind |-> IngestJob(k).kind,
                                                      sha |-> Sha256(f), by |-> f])]
          /\ Goto(f, EntryPc(e, k + 2))
          /\ UNCHANGED faults
       \/ EntryRaise(f) /\ UNCHANGED <<jobs, seq, hist>>
    /\ UNCHANGED <<now, seen, workerVars, floc, samples, dirty, slackQ, healed, crashes>>

\* enqueue_ingest_jobs: audit.append("enqueued", ...)
EntryAudit(e, f) ==
    /\ hpc[f] = EntryPc(e, 5)
    /\ \/ Goto(f, EntryPc(e, 6)) /\ UNCHANGED faults
       \/ EntryRaise(f)
    /\ UNCHANGED <<now, store, workerVars, floc, samples, dirty, slackQ, healed, crashes, hist>>

\* main --oneshot: (processed / in_path.name).write_bytes(original_bytes)
OneshotCopy(f) ==
    /\ hpc[f] = "o_copy"
    /\ \/ floc' = [floc EXCEPT ![f] = "processed"] /\ Goto(f, "done") /\ UNCHANGED faults
       \/ EntryRaise(f) /\ UNCHANGED floc
    /\ UNCHANGED <<now, store, workerVars, samples, dirty, slackQ, healed, crashes, hist>>

\* main --oneshot --input f
Oneshot(f) ==
    \/ EntryStart("oneshot", f)
    \/ EntryExtract("oneshot", f)
    \/ \E k \in 1..3 : EntryEnqueue("oneshot", f, k)
    \/ EntryAudit("oneshot", f)
    \/ OneshotCopy(f)

\* gui on_start_ingest, the turn of the loop for the staged file f
OnStartIngest(f) ==
    \/ EntryStart("manual", f)
    \/ EntryExtract("manual", f)
    \/ \E k \in 1..3 : EntryEnqueue("manual", f, k)
    \/ EntryAudit("manual", f)

HandlerStep(f) ==
    \/ StabilityWait(f)
    \/ Extract(f)
    \/ DedupGate(f)
    \/ DuplicateSkip(f)
    \/ AdmitMark(f)
    \/ \E k \in 1..3 : AdmitEnqueue(f, k)
    \/ AdmitAudit(f)
    \/ MoveProcessed(f)
    \/ AdmitFailed(f)

\* ------------------------------------------------ process kill and restart
\* the rows whose dispatch is in flight: leased, neither deleted nor failure recorded
InFlight ==
    {[id |-> wrow[w].id, attempts |-> wrow[w].attempts, lease |-> hist.claimedAt[w] + LEASE] :
        w \in {v \in Workers : wpc[v] \in {"handle", "except", "else"}
                                /\ wrow[v].id \in DOMAIN jobs}}

\* SIGKILL: every thread is gone, the store file stays as it is
Crash ==
    /\ crashes < MaxCrashes
    /\ crashes' = crashes + 1
    /\ wpc' = [w \in Workers |-> "off"]
    /\ wrow' = [w \in Workers |-> NoRow]
    /\ stop' = [w \in Workers |-> FALSE]
    /\ hist' = [hist EXCEPT !.orphan = @ \cup InFlight,
                             !.claimedAt = [w \in Workers |-> 0],
                             !.sinkOk = [w \in Workers |-> FALSE]]
    /\ hpc' = [f \in AllFiles |-> IF hpc[f] \in {"idle", "done"} THEN hpc[f] ELSE "killed"]
    /\ worker' = 0
    /\ UNCHANGED <<now, store, floc, samples, dirty, herr, slackQ, healed, faults>>

KindOf(type_) == IF type_ = "S3_PUT" THEN "original" ELSE "json"

\* ------------------------------ one queue, one worker, start and stop
NextWorker ==
    \/ now < MaxWorkerTime /\ Tick
    \/ seq < MaxEnq /\ \E type_ \in {"S3_PUT", "OTHER"} : Enqueue(type_, KindOf(type_), "h1")
    \/ seq < MaxEnq /\ Enqueue("S3_PUT", "malformed", "h1")
    \/ StartWorker(1)
    \/ StopWorker(1)
    \/ WorkerExit(1)
    \/ Dispatch(1)
    \/ Poll(1)

SpecWorker == Init /\ [][NextWorker]_vars

\* ------------------------------ enqueue calls while the worker completes jobs
NextEnqueue ==
    \/ now < MaxWorkerTime /\ Tick
    \/ seq < MaxEnq /\ \E type_ \in {"S3_PUT", "OTHER"} : Enqueue(type_, KindOf(type_), "h1")
    \/ seq < MaxEnq /\ now < MaxWorkerTime
          /\ \E type_ \in {"S3_PUT", "OTHER"} : EnqueueAcrossSecond(type_, KindOf(type_), "h1")
    \/ StartWorker(1)
    \/ Dispatch(1)

SpecEnqueue == Init /\ [][NextEnqueue]_vars

\* ------------------- two worker threads on one store, idle until a job is due
RECURSIVE SumTo(_, _)
SumTo(q, n) == IF n = 0 THEN 0 ELSE q[n] + SumTo(q, n - 1)

\* the failed dispatches recorded so far, over all jobs
TotalFails == SumTo(hist.fails, Len(hist.fails))

NextRedeliver ==
    \/ seq < MaxRetryJobs /\ Enqueue("S3_PUT", "original", "h1")
    \/ \E w \in Workers : StartWorker(w)
    \/ \E w \in Workers : Dispatch(w) /\ (wpc'[w] = "except" => TotalFails < MaxConcFails)
    \/ \E w \in Workers : IdleUntilDue(w) /\ now' <= MaxLeaseClock

SpecRedeliver == Init /\ [][NextRedeliver]_vars

\* ------- the three jobs of one document and the worker; the clock advances while
\* handle_job runs (the put and the post take seconds to return or to time out)
NextDoc ==
    \/ now < MaxWorkerTime /\ wpc[1] = "handle" /\ Tick
    \/ \E k \in 1..3 : seq = k - 1 /\ Enqueue(IngestJob(k).type, IngestJob(k).kind, "h1")
    \/ StartWorker(1)
    \/ Dispatch(1)

SpecDoc == Init /\ [][NextDoc]_vars

\* a step of the worker thread of w
WorkerStep(w) == Dispatch(w) \/ Poll(w) \/ WorkerExit(w)

\* ------- one JobQueue, started and stopped again and again, and its threads
NextThreads ==
    \/ seq < MaxEnq /\ Enqueue("S3_PUT", "original", "h1")
    \/ QueueStartWorker
    \/ QueueStopWorker
    \/ \E t \in Workers : WorkerStep(t)

SpecThreads == Init /\ [][NextThreads]_vars

\* ------- one queue, its worker scheduled fairly, every handler call returning
NextStop ==
    \/ now < MaxWorkerTime /\ Tick
    \/ seq < MaxEnq /\ Enqueue("S3_PUT", "original", "h1")
    \/ StartWorker(1)
    \/ StopWorker(1)
    \/ WorkerStep(1)

SpecStop == Init /\ [][NextStop]_vars /\ WF_vars(WorkerStep(1))

\* ------------------------------ one queue, one worker, the process is killed
NextCrash ==
    \/ now < MaxTime /\ Tick
    \/ seq < MaxEnq /\ Enqueue("S3_PUT", "original", "h1")
    \/ StartWorker(1)
    \/ Dispatch(1)
    \/ Crash

SpecCrash == Init /\ [][NextCrash]_vars

\* ------------------------------ two JobQueue instances on one store file
NextConc ==
    \/ now < MaxTime /\ Tick
    \/ seq < MaxEnq /\ Enqueue("S3_PUT", "original", "h1")
    \/ \E w \in Workers : StartWorker(w)
    \/ \E w \in Workers : Dispatch(w)

SpecConc == Init /\ [][NextConc]_vars

\* ------------- one queue, one worker scheduled fairly, sinks that recover
NextLive ==
    \/ now < MaxTime /\ Tick
    \/ seq < MaxEnq /\ \E type_ \in {"S3_PUT", "ACCIO"} : Enqueue(type_, KindOf(type_), "h1")
    \/ StartWorker(1)
    \/ Dispatch(1)
    \/ \E j \in 1..MaxEnq : Heal(j)

SpecLive ==
    /\ Init
    /\ [][NextLive]_vars
    /\ WF_vars(StartWorker(1))
    /\ WF_vars(Dispatch(1))
    /\ WF_vars(now < MaxTime /\ Tick)

\* ------------------- one queue, one worker that polls until a job is due
NextBackoff ==
    \/ seq < MaxRetryJobs /\ \E type_ \in {"ACCIO", "OTHER"} : Enqueue(type_, KindOf(type_), "h1")
    \/ StartWorker(1)
    \/ StopWorker(1)
    \/ WorkerExit(1)
    \/ Dispatch(1)
    \/ IdleUntilDue(1)

SpecBackoff == Init /\ [][NextBackoff]_vars

\* ------------------------- the watcher with its one observer thread, and the worker
Next ==
    \/ \E f \in Files : ObserverIdle /\ OnCreated(f)
    \/ \E f \in Files : HandlerStep(f)
    \/ StartWorker(1)
    \/ Dispatch(1)
    \/ Crash

Spec == Init /\ [][Next]_vars

\* ------------------------- the same, a JobQueue constructed anew on the store file
NextRestart ==
    \/ Next
    \/ Reopen(1)

SpecRestart == Init /\ [][NextRestart]_vars

\* ------------------------- on_created running for several files at once
NextAdmitConc ==
    \/ \E f \in Files : OnCreated(f)
    \/ \E f \in Files : HandlerStep(f)

SpecAdmitConc == Init /\ [][NextAdmitConc]_vars

\* ------- files arriving through the watcher, through --oneshot and through the
\* manual upload
NextEntry ==
    \/ \E f \in Files : ObserverIdle /\ OnCreated(f)
    \/ \E f \in Files : HandlerStep(f)
    \/ \E f \in Files : Oneshot(f)
    \/ \E f \in Files : OnStartIngest(f)

SpecEntry == Init /\ [][NextEntry]_vars

\* ------- the same with the clock, and the worker of the queue taking its steps
\* while no handler runs
NextSeen ==
    \/ NextAdmitConc
    \/ now < MaxSeenTime /\ (\E f \in Files : hpc[f] = "mark") /\ Tick
    \/ StartWorker(1)
    \/ ObserverIdle /\ Dispatch(1)

SpecSeen == Init /\ [][NextSeen]_vars

\* ------- the watcher alone, a file of zero bytes among the files dropped
NextZero ==
    \/ \E f \in AllFiles : ObserverIdle /\ OnCreated(f)
    \/ \E f \in AllFiles : HandlerStep(f)
    \/ \E f \in AllFiles : Write(f)

SpecZero == Init /\ [][NextZero]_vars

\* ------- the watcher alone: files still being written, failed files put back
NextWatch ==
    \/ \E f \in Files : ObserverIdle /\ OnCreated(f)
    \/ \E f \in Files : ObserverIdle /\ Resubmit(f)
    \/ \E f \in Files : HandlerStep(f)
    \/ \E f \in Files : Write(f)

SpecWatch == Init /\ [][NextWatch]_vars

\* ======================================================== the properties
\* the rows ever enqueued that carry a content hash
EnqueuedFor(sha) == {i \in 1..Len(hist.enq) : hist.enq[i].sha = sha}

\* the admissions that enqueued a row for a content hash
AdmittersOf(sha) == {hist.enq[i].by : i \in EnqueuedFor(sha)}

\* both on_created calls returned, neither through its except branch
BothHandled(f, g) ==
    /\ f # g
    /\ Sha256(f) = Sha256(g)
    /\ hpc[f] = "done" /\ hpc[g] = "done"
    /\ hist.raised \cap {f, g} = {}

\* C1 Dedup idempotence: after two byte-identical files were handled one after the
\* other (no operation of either admission raised), the content hash has one
\* Seen-File record, exactly three jobs were enqueued for it, all by one of the two
\* admissions and in the order original, extracted, json; both files are in the
\* processed directory, and the record keeps the name of the file that enqueued.
C1_DedupIdempotence ==
    \A f, g \in Files :
        BothHandled(f, g) =>
            /\ Sha256(f) \in DOMAIN seen
            /\ Cardinality(EnqueuedFor(Sha256(f))) = 3
            /\ Cardinality(AdmittersOf(Sha256(f))) = 1
            /\ AdmittersOf(Sha256(f)) = {seen[Sha256(f)].filename}
            /\ floc[f] = "processed" /\ floc[g] = "processed"

C1_Witness ==
    \E f, g \in Files :
        /\ BothHandled(f, g)
        /\ AdmittersOf(Sha256(f)) = {f}
        /\ floc[g] = "processed"

\* C5 Concurrent admission: the jobs enqueued for one content hash come from at most
\* one admission, whatever the interleaving of the on_created calls.
C5_AdmittedOnce ==
    \A f \in Files : Cardinality(AdmittersOf(Sha256(f))) <= 1

\* C6 Admission atomicity: when no admission is in progress, every content hash of
\* the Seen-File index has its three jobs (original, extracted, json) enqueued.
C6_AdmissionAtomic ==
    ObserverIdle =>
        \A sha \in DOMAIN seen :
            {hist.enq[i].kind : i \in EnqueuedFor(sha)} = {"original", "extracted", "json"}

\* a worker took the row w holds out of _dequeue_due and has neither deleted it nor
\* recorded its failure
Holds(w) == wpc[w] \in {"handle", "except", "else"}

\* w's SELECT returns a row in this step
Selects(w) == wpc[w] = "loop" /\ wpc'[w] = "update"

\* C2 as claimed: a job whose dispatch a process kill interrupted is still in the
\* store with its attempts unchanged, and the first claim made once its lease of 5
\* seconds has passed returns it.
C2_NextClaimReturnsIt ==
    [][\A o \in hist.orphan :
          /\ o.id \in DOMAIN jobs
          /\ jobs[o.id].attempts = o.attempts
          /\ \A w \in Workers : (Selects(w) /\ now >= o.lease) => wrow'[w].id = o.id]_vars

\* C2 At-least-once delivery under crash: a job whose dispatch a process kill
\* interrupted is still in the store with its attempts unchanged and with next_at at
\* the end of its lease, so it is due once the lease has passed; a claim made from
\* then on returns it unless a job with a lower id is due too, and then returns that.
C2_LeaseExpiryReclaim ==
    [][\A o \in hist.orphan :
          /\ o.id \in DOMAIN jobs
          /\ jobs[o.id].attempts = o.attempts
          /\ jobs[o.id].next_at = o.lease
          /\ \A w \in Workers :
                (Selects(w) /\ now >= o.lease) =>
                    \/ wrow'[w].id = o.id
                    \/ wrow'[w].id < o.id /\ jobs[wrow'[w].id].next_at <= now]_vars

\* a restarted worker has just been handed the interrupted job again
C2_Witness ==
    /\ crashes = 1
    /\ wpc[1] = "handle"
    /\ wrow[1].id \in hist.reclaimed
    /\ wrow[1].id \in DOMAIN jobs
    /\ jobs[wrow[1].id].next_at = now + LEASE

\* the notifications that name a job
Notices(j) == {i \in 1..Len(slackQ) : slackQ[i].job = j}

\* C3 Terminal escalation: a job has no terminal-failure notification before its 10th
\* failure and exactly one once 10 failures are recorded.
C3_TerminalEscalation ==
    \A j \in 1..seq :
        IF hist.fails[j] < MAX_ATTEMPTS THEN Notices(j) = {}
        ELSE Cardinality(Notices(j)) >= 1
             /\ (hist.fails[j] = MAX_ATTEMPTS => Cardinality(Notices(j)) = 1)

\* C4 Exclusive claim: two callers of _dequeue_due never both hold the same job on
\* leases written less than 5 seconds apart.
C4_ExclusiveClaim ==
    \A w1, w2 \in Workers :
        (w1 # w2 /\ Holds(w1) /\ Holds(w2) /\ wrow[w1].id = wrow[w2].id) =>
            \/ hist.claimedAt[w1] >= hist.claimedAt[w2] + LEASE
            \/ hist.claimedAt[w2] >= hist.claimedAt[w1] + LEASE

\* C7 No silent loss: a row leaves the jobs table only in the step in which a worker
\* that holds it in the else branch of its try (handle_job returned) deletes it.
C7_NoSilentLoss ==
    [][\A j \in DOMAIN jobs :
          j \notin DOMAIN jobs' =>
              \E w \in Workers : wpc[w] = "else" /\ wrow[w].id = j /\ wpc'[w] = "loop"]_vars

\* one job was deleted, another stays at the attempt cap, and the worker was stopped
C7_Witness ==
    /\ \E j \in 1..seq : j \notin DOMAIN jobs
    /\ \E k \in DOMAIN jobs : jobs[k].attempts >= MAX_ATTEMPTS
    /\ stop[1] /\ wpc[1] = "off"

\* w records a failure of the row it holds in this step
RecordsFailure(w) == wpc[w] = "except" /\ wpc'[w] = "loop" /\ wrow[w].id \in DOMAIN jobs

\* C8 Eventual delivery, in the form a finite run refutes: once the sink calls of a job
\* succeed, a dispatch of that job ends with its row deleted; a dispatch whose sink
\* call succeeded is never turned into a recorded failure and a reschedule.
C8_HealedJobDelivered ==
    \A w \in Workers :
        (wpc[w] = "except" /\ wrow[w].id \in healed) => ~hist.sinkOk[w]

\* C9 Backoff monotonic growth: the delay next_at - now written at a failure of a job
\* is at least the delay written at its previous failure and at most 60 seconds.
C9_BackoffMonotonic ==
    [][\A w \in Workers :
          RecordsFailure(w) =>
              LET d == jobs'[wrow[w].id].next_at - now
              IN  d >= hist.delay[wrow[w].id] /\ d <= MAX_BACKOFF]_vars

\* ten failures of one job are recorded, the last one with the delay at the cap
C9_Witness ==
    \E j \in DOMAIN jobs :
        hist.fails[j] = MAX_ATTEMPTS /\ jobs[j].attempts = MAX_ATTEMPTS
        /\ hist.delay[j] = MAX_BACKOFF

\* min(60, 2^n) written out for the n-th failure
DelayOfFailure(n) == IF n >= 6 THEN 60 ELSE <<2, 4, 8, 16, 32>>[n]

\* C10 Failure bookkeeping: a failure of a job claimed with attempts = a, recorded at
\* time now, writes attempts = a + 1 and next_at = now + min(60, 2^(a+1)) in one step:
\* 2 seconds at the first failure, 60 seconds from the sixth on.
C10_FailureBookkeeping ==
    [][\A w \in Workers :
          RecordsFailure(w) =>
              LET j == wrow[w].id
                  a == wrow[w].attempts
              IN  /\ jobs'[j].attempts = a + 1
                  /\ jobs'[j].next_at = now + DelayOfFailure(a + 1)
                  /\ jobs'[j].type = jobs[j].type /\ jobs'[j].created_at = jobs[j].created_at]_vars

\* the sixth failure of a job was recorded at a time later than 0, 60 seconds ahead
C10_Witness ==
    \E j \in DOMAIN jobs :
        jobs[j].attempts = 6 /\ wpc[1] = "loop" /\ now > 0 /\ jobs[j].next_at = now + 60

\* w's UPDATE of the lease commits in this step
Leases(w) == wpc[w] = "update" /\ wpc'[w] = "handle"

\* w's SELECT returns no row in this step
SelectsNone(w) == wpc[w] = "loop" /\ wpc'[w] = "sleep"

\* C11 Claim selection: the row _dequeue_due selects is due and no due row has a
\* lower id; its UPDATE sets next_at of that row to now + 5 and writes nothing else;
\* when no row is due it returns none and the store is unchanged.
C11_ClaimSelection ==
    [][\A w \in Workers :
          /\ Selects(w) =>
                /\ wrow'[w].id \in DOMAIN jobs
                /\ jobs[wrow'[w].id].next_at <= now
                /\ \A j \in DOMAIN jobs : jobs[j].next_at <= now => wrow'[w].id <= j
                /\ wrow'[w].attempts = jobs[wrow'[w].id].attempts
                /\ UNCHANGED store
          /\ Leases(w) =>
                /\ wrow[w].id \in DOMAIN jobs
                /\ jobs' = [jobs EXCEPT ![wrow[w].id].next_at = now + 5]
                /\ UNCHANGED <<seq, seen>>
          /\ SelectsNone(w) =>
                /\ \A j \in DOMAIN jobs : jobs[j].next_at > now
                /\ wrow'[w] = NoRow
                /\ UNCHANGED store]_vars

\* two rows were due, the worker holds the lower id on a lease written after time 0
\* and the higher id is still due
C11_Witness ==
    /\ wpc[1] = "handle" /\ wrow[1].id = 1
    /\ now > 0
    /\ 1 \in DOMAIN jobs /\ jobs[1].next_at = now + LEASE
    /\ 2 \in DOMAIN jobs /\ jobs[2].next_at <= now

\* C12 Eligibility: when a claim hands a row to the handler, the next_at that the row
\* carried before this claim wrote its own lease (the backoff end written by the last
\* failure, or the lease end written by the last claim) is not later than now.
C12_Eligibility ==
    [][\A w \in Workers :
          (Leases(w) /\ wrow[w].id \in DOMAIN jobs) => jobs[wrow[w].id].next_at <= now]_vars

\* the on_created call for f takes a step
Handles(f) == hpc'[f] # hpc[f] \/ samples'[f] # samples[f]

\* the notification on_created puts for a file it could not process
FailureNotice(f, message) ==
    [code |-> "PROCESSING_FAILED", filename |-> f, job |-> 0, message |-> message]

\* the except branch of on_created for f runs in this step and leaves the store as
\* it is: one notification, the file moved to the failed directory unless that move
\* itself raises, and the call returns
FailsClean(f) ==
    /\ hpc'[f] = "done"
    /\ UNCHANGED store
    /\ slackQ' = Append(slackQ, FailureNotice(f, herr[f]))
    /\ \/ floc'[f] = "failed"
       \/ floc'[f] = floc[f] /\ faults' = faults + 1

C14_UnsupportedExtension ==
    [][\A f \in Files :
          Suffix(f) \notin {".pdf", ".jpg", ".jpeg", ".png"} =>
              /\ hpc[f] \in {"idle", "done"}
              /\ floc[f] \in {"absent", "watch"}
              /\ (hpc[f] = "idle" /\ hpc'[f] # "idle") =>
                    /\ hpc'[f] = "done"
                    /\ floc'[f] = "watch"
                    /\ UNCHANGED <<store, slackQ>>
              /\ \A i \in 1..Len(hist.enq) : hist.enq[i].by # f
              /\ \A sha \in DOMAIN seen : seen[sha].filename # f
              /\ \A i \in 1..Len(slackQ) : slackQ[i].filename # f]_vars

\* the event of n.txt was delivered and returned, and a.pdf was admitted in the same run
C14_Witness ==
    /\ hpc["n.txt"] = "done" /\ floc["n.txt"] = "watch"
    /\ "h1" \in DOMAIN seen
    /\ "a.pdf" \in hist.admitted

\* the rows a file's admission enqueued, in the order of their insertion
RowsBy(f) == SelectSeq(hist.enq, LAMBDA r : r.by = f)

\* enqueue_ingest_jobs made its three enqueue calls for f
EnqueuedAll(f) == hpc[f] \in {"audit", "move"} \/ f \in hist.admitted

\* C15 Per-document job set: once enqueue_ingest_jobs has made its enqueues for a
\* document, exactly three rows were inserted for it: S3_PUT original, S3_PUT
\* extracted, ACCIO, in this order, with strictly increasing ids, each carrying the
\* content hash of the document.
C15_PerDocumentJobSet ==
    \A f \in Files :
        EnqueuedAll(f) =>
            LET r == RowsBy(f)
            IN  /\ Len(r) = 3
                /\ r[1].type = "S3_PUT" /\ r[1].kind = "original"
                /\ r[2].type = "S3_PUT" /\ r[2].kind = "extracted"
                /\ r[3].type = "ACCIO"
                /\ r[1].id < r[2].id /\ r[2].id < r[3].id
                /\ \A i \in 1..3 : r[i].sha = Sha256(f)

\* a.pdf was admitted and moved to processed; the worker already delivered its first
\* job and holds the second
C15_Witness ==
    /\ "a.pdf" \in hist.admitted /\ floc["a.pdf"] = "processed"
    /\ Len(RowsBy("a.pdf")) = 3
    /\ DOMAIN jobs = {2, 3}
    /\ wpc[1] = "handle" /\ wrow[1].id = 2

C17_WorkerErrorIsolation ==
    [][\A w \in Workers :
          /\ (wpc[w] = "handle" /\ wpc'[w] # "handle") => wpc'[w] \in {"except", "else"}
          /\ (wpc[w] = "except" /\ wpc'[w] # "except") =>
                /\ wpc'[w] = "loop"
                /\ wrow[w].id \in DOMAIN jobs'
                /\ jobs'[wrow[w].id].attempts = wrow[w].attempts + 1
                /\ jobs'[wrow[w].id].next_at > now
          /\ (wpc[w] # "off" /\ wpc'[w] = "off") => (wpc[w] = "loop" /\ stop[w])]_vars

\* job 1 has an unknown type and failed once; the worker went on, claimed job 2,
\* whose payload lacks a field, and is in the except branch for it
C17_Witness ==
    /\ 1 \in DOMAIN jobs /\ jobs[1].type = "OTHER" /\ jobs[1].attempts = 1
    /\ wpc[1] = "except" /\ wrow[1].id = 2 /\ wrow[1].kind = "malformed"
    /\ ~stop[1]

\* the positions of an on_created call between its entry and its return
InHandler ==
    {"wait", "wait2", "extract", "is_seen", "dup", "mark", "enq1", "enq2", "enq3",
     "audit", "move", "except"}

\* C18 Watcher error isolation: whatever raises inside on_created (stat, timeout,
\* extraction, is_seen, mark_seen, enqueue, audit, a move), the call goes to its
\* except branch or on inside the try, and from the except branch it returns, also
\* when the move to the failed directory raises; no call is left unreturned by an
\* exception, so the observer thread is free for the next event.
C18_WatcherErrorIsolation ==
    [][\A f \in Files :
          /\ hpc[f] \in InHandler \cup {"idle", "done"}
          /\ (hpc[f] \in InHandler /\ Handles(f)) => hpc'[f] \in InHandler \cup {"done"}
          /\ (hpc[f] = "except" /\ Handles(f)) => hpc'[f] = "done"]_vars

\* a.pdf never became stable and its move to the failed directory raised too: it is
\* still in the watch directory; b.pdf, created after it, was admitted
C18_Witness ==
    /\ hpc["a.pdf"] = "done" /\ herr["a.pdf"] = "TimeoutError"
    /\ floc["a.pdf"] = "watch" /\ faults = 1
    /\ "b.pdf" \in hist.admitted /\ "h1" \in DOMAIN seen /\ seen["h1"].filename = "b.pdf"

\* w deletes the row it holds in this step
Completes(w) == wpc[w] = "else" /\ wpc'[w] = "loop"

\* C19 Stuck jobs stay retryable: a row with attempts >= 10 leaves the store only when
\* a worker deletes it after a successful dispatch; a failure of a row claimed with
\* attempts >= 10 writes attempts + 1 and next_at = now + 60; a successful dispatch of
\* such a row deletes it.
C19_StuckJobsRetryable ==
    [][/\ \A j \in DOMAIN jobs :
             (jobs[j].attempts >= 10 /\ j \notin DOMAIN jobs') =>
                 \E w \in Workers : Completes(w) /\ wrow[w].id = j
       /\ \A w \in Workers :
             /\ (RecordsFailure(w) /\ wrow[w].attempts >= 10) =>
                   /\ wrow[w].id \in DOMAIN jobs'
                   /\ jobs'[wrow[w].id].attempts = wrow[w].attempts + 1
                   /\ jobs'[wrow[w].id].next_at = now + 60
             /\ (Completes(w) /\ wrow[w].attempts >= 10) => wrow[w].id \notin DOMAIN jobs']_vars

\* job 1 failed eleven times, the eleventh time 60 seconds after the tenth, and was
\* deleted by the dispatch that followed
C19_Witness ==
    /\ seq >= 1 /\ hist.fails[1] = 11 /\ hist.delay[1] = 60
    /\ 1 \notin DOMAIN jobs

\* C20 Worker stop: with the stop flag set the worker reads no row at the head of its
\* loop; a dispatch in flight when the flag is set runs on to its end, the except
\* branch recording the failure, the else branch deleting the row; the thread ends
\* only at the head of the loop with the flag set; and a running worker whose flag is
\* set has ended some time later, every handler call returning.
C20_WorkerStop ==
    /\ [][\A w \in Workers :
             /\ stop[w] => (~Selects(w) /\ ~SelectsNone(w))
             /\ (stop[w] /\ wpc[w] = "update" /\ wpc'[w] # "update") => wpc'[w] = "handle"
             /\ (stop[w] /\ wpc[w] = "handle" /\ wpc'[w] # "handle") =>
                   wpc'[w] \in {"except", "else"}
             /\ (stop[w] /\ wpc[w] = "except" /\ wpc'[w] # "except") =>
                   /\ wpc'[w] = "loop"
                   /\ wrow[w].id \in DOMAIN jobs'
                   /\ jobs'[wrow[w].id].attempts = wrow[w].attempts + 1
             /\ (stop[w] /\ wpc[w] = "else" /\ wpc'[w] # "else") =>
                   (wpc'[w] = "loop" /\ wrow[w].id \notin DOMAIN jobs')
             /\ (wpc[w] # "off" /\ wpc'[w] = "off") => (wpc[w] = "loop" /\ stop[w])]_vars
    /\ \A w \in Workers : (stop[w] /\ wpc[w] # "off") ~> (wpc[w] = "off")

\* the flag was set during the dispatch of job 1: the worker is about to delete
\* job 1 while job 2, due as well, waits unclaimed
C20_Witness ==
    /\ stop[1] /\ wpc[1] = "else" /\ wrow[1].id = 1
    /\ DOMAIN jobs = {1, 2}
    /\ jobs[2].attempts = 0 /\ jobs[2].next_at <= now

\* a JobQueue is constructed on the existing store file in this step
Reopens == hist'.opens # hist.opens

\* C21 Restart fidelity: the construction of a JobQueue on an existing store file
\* leaves every row of jobs, every field of it, the id sequence and every Seen-File
\* record as they were: nothing is dropped, reset or leased anew.
C21_RestartFidelity ==
    [][Reopens =>
          /\ DOMAIN jobs' = DOMAIN jobs
          /\ \A j \in DOMAIN jobs : jobs'[j] = jobs[j]
          /\ seq' = seq
          /\ DOMAIN seen' = DOMAIN seen
          /\ \A h \in DOMAIN seen : seen'[h] = seen[h]]_vars

\* after a process kill a JobQueue was constructed on the file: the Seen-File record
\* is there, job 1 still carries its failure and its backoff, job 2 the lease that
\* the killed worker wrote, job 3 is as enqueued
C21_Witness ==
    /\ crashes = 1 /\ hist.opens = 1
    /\ "h1" \in DOMAIN seen
    /\ DOMAIN jobs = {1, 2, 3}
    /\ jobs[1].attempts = 1 /\ jobs[1].next_at = 2
    /\ jobs[2].attempts = 0 /\ jobs[2].next_at = LEASE
    /\ jobs[3].attempts = 0 /\ jobs[3].next_at = 0

\* an enqueue call returns in this step
Enqueues == Len(hist'.enq) = Len(hist.enq) + 1

\* the id that the enqueue call of this step returns
ReturnedId == hist'.enq[Len(hist'.enq)].id

\* what every enqueue does apart from the two timestamps: exactly one new row, under
\* the returned id, which is above every id returned before; attempts 0; every
\* existing row and every Seen-File record as before
EnqueueInsertsOne ==
    /\ ReturnedId \notin DOMAIN jobs
    /\ DOMAIN jobs' = DOMAIN jobs \cup {ReturnedId}
    /\ \A i \in 1..Len(hist.enq) : hist.enq[i].id < ReturnedId
    /\ jobs'[ReturnedId].attempts = 0
    /\ \A j \in DOMAIN jobs : jobs'[j] = jobs[j]
    /\ seen' = seen

\* C22 Enqueue, as stated: every enqueue inserts exactly one new job with attempts 0
\* and next_at = created_at = now, returns its id, which is strictly greater than
\* every id returned before, also when earlier jobs were deleted, and leaves the
\* existing rows unchanged.
C22_Enqueue ==
    [][Enqueues =>
          /\ EnqueueInsertsOne
          /\ jobs'[ReturnedId].next_at = now
          /\ jobs'[ReturnedId].created_at = jobs'[ReturnedId].next_at]_vars

\* C22 Enqueue, amended: as stated, but next_at is the clock at the call and
\* created_at is a second reading of the clock, equal to next_at or one second later
\* and never later than the clock at the return.
C22_EnqueueTwoClockReads ==
    [][Enqueues =>
          /\ EnqueueInsertsOne
          /\ jobs'[ReturnedId].next_at = now
          /\ jobs'[ReturnedId].created_at \in {now, now + 1}
          /\ jobs'[ReturnedId].created_at <= now']_vars

\* job 1 was delivered and deleted; the enqueue after it got id 2 in the empty
\* table, its created_at read one second after its next_at
C22_Witness ==
    /\ DOMAIN jobs = {2}
    /\ Len(hist.enq) = 2
    /\ jobs[2].attempts = 0
    /\ jobs[2].created_at = jobs[2].next_at + 1

\* C23 Completion is idempotent: the DELETE of a completion removes the row of the
\* job's id and no other row; when that row is no longer in the store the DELETE
\* changes nothing, is no error (the worker goes on with its loop) and so leaves the
\* store as the first deletion left it.
C23_CompletionIdempotent ==
    [][\A w \in Workers : Completes(w) =>
          /\ DOMAIN jobs' = DOMAIN jobs \ {wrow[w].id}
          /\ \A j \in DOMAIN jobs' : jobs'[j] = jobs[j]
          /\ wrow[w].id \notin DOMAIN jobs => jobs' = jobs
          /\ seq' = seq /\ seen' = seen
          /\ wpc'[w] = "loop"]_vars

\* job 1 was deleted twice, by the two workers that both dispatched it after its
\* lease had expired; job 2 is in the store as it was
C23_Witness ==
    /\ 1 \in hist.gone
    /\ DOMAIN jobs = {2}
    /\ jobs[2].attempts = 0 /\ jobs[2].next_at = jobs[2].created_at
    /\ \A w \in Workers : wpc[w] = "loop"

\* mark_seen of the handler of f returns in this step
Marks(f) == hpc[f] = "mark" /\ hpc'[f] = "enq1"

\* C24 mark_seen is insert-if-absent: no step of a watcher handler or of the worker
\* removes or changes a Seen-File record, so marking a hash that is present keeps
\* the first filename and timestamp; and is_seen(h) is true exactly for the hashes
\* for which a mark_seen returned earlier (none at the start).
C24_MarkSeenInsertIfAbsent ==
    /\ \A f \in Files : ~IsSeen(Sha256(f))
    /\ [][/\ \A h \in DOMAIN seen : h \in DOMAIN seen' /\ seen'[h] = seen[h]
          /\ \A f \in Files : IsSeen(Sha256(f))' <=>
                                    \/ IsSeen(Sha256(f))
                                    \/ \E g \in Files : Marks(g) /\ Sha256(g) = Sha256(f)
          /\ \A f \in Files : Marks(f) /\ ~IsSeen(Sha256(f)) =>
                                    seen'[Sha256(f)] = [filename |-> f, created_at |-> now]]_vars

\* a.pdf was marked first, at second 0; b.pdf, with the same bytes, passed is_seen
\* before that and its mark_seen has returned later: the record is still that of a.pdf
C24_Witness ==
    /\ IsSeen("h1")
    /\ seen["h1"] = [filename |-> "a.pdf", created_at |-> 0]
    /\ now > 0
    /\ hpc["b.pdf"] = "enq1"
    /\ jobs # <<>>

\* handle_job of the job that w holds returns or raises in this step
HandleReturns(w) == wpc[w] = "handle" /\ wpc'[w] \in {"else", "except"}

\* C25 API dispatch outcome: handle_job for an ACCIO job raises to the worker exactly
\* when the post to the ingestion API failed (a status outside 200..299, or no
\* answer), and returns normally when the API answered 2xx; so a job that failed
\* before is completed by the attempt on which the API answers 2xx.
C25_ApiDispatchOutcome ==
    [][\A w \in Workers :
          HandleReturns(w) /\ wrow[w].type = "ACCIO" =>
             /\ wpc'[w] = "except" <=> ~hist'.sinkOk[w]
             /\ wpc'[w] = "else" <=> hist'.sinkOk[w]]_vars

\* C26 File routing independent of delivery: once the handling of a created file
\* with an allowed extension has returned, the file is in the processed directory or
\* in the failed directory and no longer in the watch directory, whatever becomes
\* of its jobs.
C26_FileRouting ==
    \A f \in Files :
        Suffix(f) \in ALLOWED /\ hpc[f] = "done" => floc[f] \in {"processed", "failed"}

\* process_file_to_payload returns or raises for f in this step, in --oneshot or in
\* the manual upload
Extracts(f) == hpc[f] \in {"o_extract", "m_extract"} /\ hpc'[f] # hpc[f]

\* C27 The extractor rejects unsupported types: for a file whose suffix is not
\* .pdf, .jpg, .jpeg or .png, process_file_to_payload returns no payload and raises
\* ValueError once it has read the file; the entry point ends for that file without
\* a job, and no step of the watcher, of --oneshot or of the manual upload inserts a
\* job for such a file.
C27_ExtractorRejectsUnsupported ==
    [][\A f \in Files : Suffix(f) \notin ALLOWED =>
          /\ Extracts(f) =>
                /\ hpc'[f] = "done"
                /\ herr'[f] \in {"ValueError", "OSError"}
                /\ faults' = faults => herr'[f] = "ValueError"
                /\ jobs' = jobs
          /\ Enqueues => hist'.enq[Len(hist'.enq)].by # f]_vars

\* n.txt was given to --oneshot or to the manual upload and the extractor raised
\* ValueError: no job carries its hash, while a.pdf has its three jobs
C27_Witness ==
    /\ hpc["n.txt"] = "done" /\ herr["n.txt"] = "ValueError" /\ floc["n.txt"] = "input"
    /\ \A j \in DOMAIN jobs : jobs[j].sha # Sha256("n.txt")
    /\ hpc["a.pdf"] = "done" /\ floc["a.pdf"] = "input"
    /\ Len(RowsBy("a.pdf")) = 3

\* job k waits for its first dispatch: never leased, no failure recorded
NeverDispatched(k) == jobs[k].attempts = 0 /\ jobs[k].next_at = jobs[k].created_at

\* C28 No head-of-line blocking: the repeated failure of a job does not hold up
\* the other jobs: a job that has failed before is not dispatched again while
\* another job is due and still waits for its first dispatch.
C28_NoHeadOfLineBlocking ==
    [][Selects(1) /\ hist.fails[wrow'[1].id] >= 1 =>
          \A k \in Due(now) \ {wrow'[1].id} : ~NeverDispatched(k)]_vars

\* C29 Attempts counts failures without lost updates: the attempts of every job in
\* the store equal the number of its dispatches that ended in a recorded failure,
\* also when two workers dispatched the job because its lease expired during a
\* long dispatch.
C29_AttemptsCountsFailures ==
    \A j \in DOMAIN jobs : jobs[j].attempts = hist.fails[j]

\* a step of the handler of f
HandlerMoves(f) == hpc'[f] # hpc[f]

\* C30 Frame of job mutations: a row keeps its type, payload, sha256 and created_at
\* under every step for as long as it is in the store; the lease of a claim changes
\* next_at of the claimed row and nothing else, attempts included; a recorded
\* failure changes attempts and next_at of that row and nothing else; a step of a
\* watcher handler changes no existing row.
C30_FrameOfJobMutations ==
    [][/\ \A j \in DOMAIN jobs \cap DOMAIN jobs' :
             /\ jobs'[j].type = jobs[j].type /\ jobs'[j].kind = jobs[j].kind
             /\ jobs'[j].sha = jobs[j].sha /\ jobs'[j].created_at = jobs[j].created_at
       /\ \A w \in Workers :
             /\ Leases(w) =>
                   /\ DOMAIN jobs' = DOMAIN jobs
                   /\ \A j \in DOMAIN jobs :
                         /\ jobs'[j].attempts = jobs[j].attempts
                         /\ j # wrow[w].id => jobs'[j] = jobs[j]
             /\ RecordsFailure(w) =>
                   /\ DOMAIN jobs' = DOMAIN jobs
                   /\ \A j \in DOMAIN jobs : j # wrow[w].id => jobs'[j] = jobs[j]
       /\ \A f \in Files :
             HandlerMoves(f) => \A j \in DOMAIN jobs : j \in DOMAIN jobs' /\ jobs'[j] = jobs[j]]_vars

\* job 1 was claimed and its failure recorded, job 2 is leased and in its dispatch,
\* and the handler of a.pdf is still enqueueing: rows 1 and 2 differ from what was
\* inserted in attempts and next_at only
C30_Witness ==
    /\ hpc["a.pdf"] = "enq3"
    /\ DOMAIN jobs = {1, 2}
    /\ jobs[1] = [NewJob(IngestJob(1).type, IngestJob(1).kind, "h1", 0)
                     EXCEPT !.attempts = 1, !.next_at = 2]
    /\ wpc[1] = "handle" /\ wrow[1].id = 2
    /\ jobs[2] = [NewJob(IngestJob(2).type, IngestJob(2).kind, "h1", 0) EXCEPT !.next_at = LEASE]

\* C31 DONE is terminal: an id that was assigned and whose row is not in the store
\* has no row in any later state: a failure UPDATE or a second DELETE that arrives
\* late for it, from another worker that had claimed the same job, does not put the
\* row back, and enqueue assigns an id above every id assigned before.
C31_DoneIsTerminal ==
    [][/\ \A j \in 1..seq : j \notin DOMAIN jobs => j \notin DOMAIN jobs'
       /\ \A j \in DOMAIN jobs' : j \in DOMAIN jobs \/ j > seq]_vars

\* job 1 was deleted by one worker; the failure UPDATE of the other worker, which
\* had claimed it too, came after that and found no row; job 2 was enqueued
C31_Witness ==
    /\ 1 \in hist.late
    /\ DOMAIN jobs = {2}
    /\ seq = 2
    /\ \A w \in Workers : wpc[w] = "loop"

\* C32 Zero-byte files: a zero-byte file in the watch directory never reaches the
\* extraction; when its handling has returned it has run into the stability
\* timeout and is in the failed directory.
C32_ZeroByteFiles ==
    \A f \in EmptyFiles :
        /\ hpc[f] # "extract"
        /\ hpc[f] = "done" => herr[f] = "TimeoutError" /\ floc[f] = "failed"

\* C33 No repeated delivery without a crash: with one worker and no process kill, a
\* job whose sink call succeeded in a dispatch is deleted by that dispatch; it is
\* never rescheduled, so its sink call is not issued again.
C33_NoRepeatedDelivery ==
    [][RecordsFailure(1) => ~hist.sinkOk[1]]_vars

\* C34 Dedup across entry points: whatever the watcher, --oneshot and the manual
\* upload did on the store, at most one set of three ingest jobs was enqueued per
\* content hash, and a hash for which jobs were enqueued is in the Seen-File index.
C34_DedupAcrossEntryPoints ==
    \A f \in Files :
        /\ Cardinality(EnqueuedFor(Sha256(f))) <= 3
        /\ EnqueuedFor(Sha256(f)) # {} => IsSeen(Sha256(f))

\* C35 Seen precedes jobs: in every state, every job that a watcher admission
\* enqueued, in the store or already gone from it, carries a content hash that is
\* in the Seen-File index.
C35_SeenPrecedesJobs ==
    /\ \A i \in 1..Len(hist.enq) : hist.enq[i].by \in AllFiles => IsSeen(hist.enq[i].sha)
    /\ \A j \in DOMAIN jobs : IsSeen(jobs[j].sha)

\* the admission of a.pdf has marked its hash and enqueued the first job; the
\* second enqueue is still to come
C35_Witness ==
    /\ hpc["a.pdf"] = "enq2"
    /\ DOMAIN jobs = {1} /\ jobs[1].sha = Sha256("a.pdf")
    /\ IsSeen(Sha256("a.pdf")) /\ seen[Sha256("a.pdf")].filename = "a.pdf"

\* C36 Failed means not admitted: when the handler of a file has returned with the
\* file in the failed directory, whatever step of the admission failed, no job
\* enqueued for that file exists and the Seen-File index holds no record made for it.
C36_FailedMeansNotAdmitted ==
    \A f \in Files :
        hpc[f] = "done" /\ floc[f] = "failed" =>
            /\ RowsBy(f) = <<>>
            /\ ~(IsSeen(Sha256(f)) /\ seen[Sha256(f)].filename = f)

\* the type of the row is one that handle_job knows
KnownType(type_) == type_ \in {"S3_PUT", "ACCIO"}

\* C37 Unknown job kind: for a job whose type is neither S3_PUT nor ACCIO handle_job
\* raises; the worker then writes attempts + 1 and next_at = now + backoff for it
\* and goes on with its loop; no step deletes such a job.
C37_UnknownJobKind ==
    [][/\ \A w \in Workers :
             /\ HandleReturns(w) /\ ~KnownType(wrow[w].type) => wpc'[w] = "except"
             /\ RecordsFailure(w) /\ ~KnownType(wrow[w].type) =>
                   /\ jobs'[wrow[w].id].attempts = jobs[wrow[w].id].attempts + 1
                   /\ jobs'[wrow[w].id].next_at = now + Min({MAX_BACKOFF, Pow2(jobs'[wrow[w].id].attempts)})
                   /\ wpc'[w] = "loop"
       /\ \A j \in DOMAIN jobs : ~KnownType(jobs[j].type) => j \in DOMAIN jobs']_vars

\* job 1, of an unknown type, has two recorded failures and is in the store; job 2,
\* an S3_PUT enqueued with it, was delivered and deleted, and the worker is running
C37_Witness ==
    /\ DOMAIN jobs = {1} /\ seq = 2
    /\ ~KnownType(jobs[1].type) /\ jobs[1].attempts = 2
    /\ hist.enq[2].type = "S3_PUT"
    /\ wpc[1] = "loop" /\ ~stop[1]

\* the threads of the JobQueue that are alive
AliveThreads == {t \in Workers : wpc[t] # "off"}

\* C38 Single worker per queue: whatever start_worker and stop_worker calls were
\* made on the JobQueue, at most one of its worker threads is alive, the one that
\* _worker refers to, so at most one job is held in a dispatch; a start_worker that
\* finds the worker alive starts nothing.
C38_SingleWorkerPerQueue ==
    /\ Cardinality(AliveThreads) <= 1
    /\ AliveThreads \subseteq {worker}
    /\ Cardinality({t \in Workers : Holds(t)}) <= 1

\* two threads were started one after the other, each after the one before had
\* ended; a start_worker found the worker alive and returned; one thread is alive
\* and holds a job
C38_Witness ==
    /\ hist.starts = 2
    /\ hist.startIgnored
    /\ Cardinality(AliveThreads) = 1
    /\ Holds(worker)

\* a start_worker call returns in this step
StartReturns == hist'.starts # hist.starts \/ (hist'.startIgnored /\ ~hist.startIgnored)

\* C39 Restartable worker: when start_worker returns, also after a stop_worker
\* whose join timed out on a thread inside a dispatch, a worker thread of the
\* JobQueue is alive and the stop flag is clear, so that it goes on claiming due
\* jobs until the next stop_worker.
C39_RestartableWorker ==
    [][StartReturns => \E t \in Workers : wpc'[t] # "off" /\ ~stop'[t]]_vars

====
